---- MODULE Spec2Model ----
(***************************************************************************)
(* Model of generate_icon.py: the Python orchestrator generate_icons()     *)
(* writes an embedded Swift program to /tmp/generate_icon.swift and runs   *)
(* it with os.system; the Swift program loops over its own size table and  *)
(* calls createIcon once per entry.                                        *)
(*                                                                         *)
(* One process is one execution of the script.  The environment (is the    *)
(* swift command on the PATH, is the destination directory usable, can the *)
(* temporary file be written, does a Core Graphics allocation fail) is     *)
(* chosen in Init and stays fixed during a behaviour.                      *)
(***************************************************************************)
EXTENDS Integers, Sequences, FiniteSets, TLC

\* Number of executions of the script in one behaviour.
NumRuns == 2

Procs == 1..NumRuns

(***************************************************************************)
(* Program constants                                                       *)
(***************************************************************************)

\* generate_icons.base_path (assigned, never read by the Python code).
base_path == "AppIcon.appiconset"

\* The Python list with its last filename drifted away from the Swift one.
sizesDrift ==
  << <<16, "icon_16x16.png">>,
     <<32, "icon_16x16@2x.png">>,
     <<32, "icon_32x32.png">>,
     <<64, "icon_32x32@2x.png">>,
     <<128, "icon_128x128.png">>,
     <<256, "icon_128x128@2x.png">>,
     <<256, "icon_256x256.png">>,
     <<512, "icon_256x256@2x.png">>,
     <<512, "icon_512x512.png">>,
     <<1024, "icon_1024x1024.png">> >>

\* generate_icons.sizes (assigned, never read by the Python code).
sizes ==
  << <<16, "icon_16x16.png">>,
     <<32, "icon_16x16@2x.png">>,
     <<32, "icon_32x32.png">>,
     <<64, "icon_32x32@2x.png">>,
     <<128, "icon_128x128.png">>,
     <<256, "icon_128x128@2x.png">>,
     <<256, "icon_256x256.png">>,
     <<512, "icon_256x256@2x.png">>,
     <<512, "icon_512x512.png">>,
     <<1024, "icon_512x512@2x.png">> >>

\* The sizes table of the embedded Swift program, with the 32x32 entry renamed
\* to the 16x16@2x name (the two 32 pixel entries confused).
swiftSizesDup ==
  << <<16, "icon_16x16.png">>,
     <<32, "icon_16x16@2x.png">>,
     <<32, "icon_16x16@2x.png">>,
     <<64, "icon_32x32@2x.png">>,
     <<128, "icon_128x128.png">>,
     <<256, "icon_128x128@2x.png">>,
     <<256, "icon_256x256.png">>,
     <<512, "icon_256x256@2x.png">>,
     <<512, "icon_512x512.png">>,
     <<1024, "icon_512x512@2x.png">> >>

\* `let sizes: [(Int, String)]` of the embedded Swift program.
swiftSizes ==
  << <<16, "icon_16x16.png">>,
     <<32, "icon_16x16@2x.png">>,
     <<32, "icon_32x32.png">>,
     <<64, "icon_32x32@2x.png">>,
     <<128, "icon_128x128.png">>,
     <<256, "icon_128x128@2x.png">>,
     <<256, "icon_256x256.png">>,
     <<512, "icon_256x256@2x.png">>,
     <<512, "icon_512x512.png">>,
     <<1024, "icon_512x512@2x.png">> >>

\* `let basePath` of the embedded Swift program.
basePath == "AppIcon.appiconset"

\* The final print of the embedded Swift program.
doneLine == [text |-> "All icons generated successfully!", path |-> <<"", "">>]

\* swift_script: the text of the Swift program, by the parts that determine
\* what it does when run.
swift_script ==
  [sizes |-> swiftSizes, basePath |-> basePath, last |-> doneLine]

\* Text that an earlier, different version of the generator left behind.
StaleText == [sizes |-> <<>>, basePath |-> "old", last |-> [text |-> "", path |-> <<"", "">>]]

\* script_path, "/tmp/generate_icon.swift": the model has this one temporary
\* file, held in tmpFile.

(***************************************************************************)
(* Files                                                                   *)
(***************************************************************************)

\* What open(script_path, "a") would do: nothing is cut, and the descriptor
\* writes at the end of the file.
OpenAppend(file) ==
  [file |-> [exists |-> TRUE, text |-> file.text], pos |-> Len(file.text)]

\* open(script_path, "w"): the file is created, or truncated to length 0, and
\* the descriptor writes from the start of the file.
OpenWrite(file) ==
  [file |-> [exists |-> TRUE, text |-> <<>>], pos |-> 0]

\* A write that always lands after what the file holds.
WriteAtEnd(file, pos, chunk) ==
  [file EXCEPT !.text = file.text \o <<chunk>>]

\* f.write(swift_script) followed by the close that leaves the `with` block:
\* the text is shorter than the buffer of the file object, so it reaches the
\* file in one write, at the descriptor's position (counted in texts).
WriteAt(file, pos, chunk) ==
  [file EXCEPT !.text = SubSeq(file.text, 1, pos) \o <<chunk>>
                          \o SubSeq(file.text, pos + 2, Len(file.text))]

\* "\(basePath)/\(filename)"
PathOf(dir, filename) == <<dir, filename>>

\* print("Created: \(path)")
CreatedLine(path) == [text |-> "Created: ", path |-> path]

\* A canvas half as high as it is wide.
CanvasHalf(size) == [width |-> size, height |-> size \div 2]

\* createIcon's CGContext(width: size, height: size, ...): the canvas.
Canvas(size) == [width |-> size, height |-> size]

\* The PNG that createIcon encodes from the canvas (the drawing depends on
\* size only: no randomness, no clock).
Image(size) == [canvas |-> Canvas(size), format |-> "png"]

\* An image that an earlier, different version of the generator left behind.
StaleImage == [canvas |-> [width |-> 0, height |-> 0], format |-> "png"]

(***************************************************************************)
(* Environment                                                             *)
(***************************************************************************)

\* The Core Graphics allocation that fails, if one does: at = 0 is none;
\* otherwise the call of createIcon for entry `at` of the table fails in its
\* CGContext ("context"), its CGGradient ("gradient") or makeImage ("image").
Faults ==
  {[at |-> 0, kind |-> "none"]}
    \cup [at : 1..Len(swiftSizes), kind : {"context", "gradient", "image"}]

\* swift: the shell finds a `swift` command.
\* dest:  "ok" the destination directory exists and is writable; otherwise it
\*        is missing or unwritable and either CGImageDestinationCreateWithURL
\*        returns nil ("nocreate") or CGImageDestinationFinalize returns
\*        false ("nofinalize").
\* tmp:   "ok", or open(script_path, "w") fails ("openfail"), or the write
\*        fails when the buffer is flushed ("writefail").
Envs ==
  [swift : BOOLEAN,
   dest : {"ok", "nocreate", "nofinalize"},
   tmp : {"ok", "openfail", "writefail"},
   cg : Faults]

\* The environment the program assumes: its unchecked preconditions hold and
\* no allocation fails.
Nominal(e) ==
  e.swift /\ e.dest = "ok" /\ e.tmp = "ok" /\ e.cg.at = 0

VARIABLES
  env,        \* the environment, fixed
  tmpFile,    \* /tmp/generate_icon.swift: [exists, text]
  files,      \* the image files: path -> image
  pc,         \* where each Python process is
  fd,         \* the position of each process's open descriptor, -1: closed
  swift,      \* each process's swift subprocess
  program,    \* the text the swift subprocess read from the temporary file
  idx,        \* the table entry the Swift loop is at
  status,     \* how the command given to os.system ended
  stdout,     \* the lines on each process's standard output
  written,    \* the images each run's CGImageDestinationFinalize wrote
  invoked,    \* how many times each run called os.system
  tmpFailed,  \* whether the run's write of the temporary file failed
  exit,       \* each process's exit status
  snap        \* the files as they were when each run returned

vars ==
  <<env, tmpFile, files, pc, fd, swift, program, idx, status, stdout,
    written, invoked, tmpFailed, exit, snap>>

NoFiles == [path \in {} |-> StaleImage]

NoTmpFile == [exists |-> FALSE, text |-> <<>>]

\* The destination directory as an earlier generator left it.
StaleFiles ==
  [path \in {PathOf(basePath, sizes[i][2]) : i \in 1..Len(sizes)}
     |-> StaleImage]

InitProcs ==
  /\ pc = [p \in Procs |-> "idle"]
  /\ fd = [p \in Procs |-> -1]
  /\ swift = [p \in Procs |-> "notstarted"]
  /\ program = [p \in Procs |-> <<>>]
  /\ idx = [p \in Procs |-> 0]
  /\ status = [p \in Procs |-> "none"]
  /\ stdout = [p \in Procs |-> <<>>]
  /\ written = [p \in Procs |-> {}]
  /\ invoked = [p \in Procs |-> 0]
  /\ tmpFailed = [p \in Procs |-> FALSE]
  /\ exit = [p \in Procs |-> "running"]
  /\ snap = [p \in Procs |-> [tmp |-> NoTmpFile, files |-> NoFiles]]

InitFiles ==
  /\ tmpFile \in {NoTmpFile, [exists |-> TRUE, text |-> <<StaleText>>]}
  /\ files \in (IF env.dest = "ok" THEN {NoFiles, StaleFiles} ELSE {NoFiles})

Init ==
  /\ env \in Envs
  /\ InitFiles
  /\ InitProcs

\* Concurrent executions are explored without allocation faults.
InitConc ==
  /\ env \in {e \in Envs : e.cg.at = 0}
  /\ InitFiles
  /\ InitProcs

(***************************************************************************)
(* The Python process                                                      *)
(***************************************************************************)

Finished(p) == pc[p] \in {"done", "raised"}

\* `if __name__ == "__main__": generate_icons()` up to the open: the process
\* starts and builds base_path, sizes and swift_script.
Start(p) ==
  /\ pc[p] = "idle"
  /\ pc' = [pc EXCEPT ![p] = "open"]
  /\ UNCHANGED <<env, tmpFile, files, fd, swift, program, idx, status,
                 stdout, written, invoked, tmpFailed, exit, snap>>

\* An execution started when no other execution is under way.
StartSeq(p) ==
  /\ \A q \in Procs \ {p} : pc[q] = "idle" \/ Finished(q)
  /\ Start(p)

\* An OSError that a `try: ... except OSError: pass` around the statement
\* would swallow: the run goes on with the statement after it.
OnOSErrorPass(next) == next

\* An OSError raised in the `with` statement: nothing catches it, it leaves
\* generate_icons and the script.
OnOSError(next) == "raised"

\* The exit status of a process at pc: an uncaught exception ends the
\* interpreter with a failure status.
ExitAt(at, old) == IF at = "raised" THEN "failure" ELSE old

\* `with open(script_path, "w") as f:`
Open(p) ==
  /\ pc[p] = "open"
  /\ IF env.tmp = "openfail"
       THEN /\ pc' = [pc EXCEPT ![p] = OnOSError("write")]
            /\ exit' = [exit EXCEPT ![p] = ExitAt(OnOSError("write"), @)]
            /\ tmpFailed' = [tmpFailed EXCEPT ![p] = TRUE]
            /\ UNCHANGED <<tmpFile, fd>>
       ELSE /\ tmpFile' = OpenWrite(tmpFile).file
            /\ fd' = [fd EXCEPT ![p] = OpenWrite(tmpFile).pos]
            /\ pc' = [pc EXCEPT ![p] = "write"]
            /\ UNCHANGED <<exit, tmpFailed>>
  /\ UNCHANGED <<env, files, swift, program, idx, status, stdout, written,
                 invoked, snap>>

\* `f.write(swift_script)` and the end of the `with` block, which flushes the
\* buffer and closes the file, also when the flush raises.
WriteClose(p) ==
  /\ pc[p] = "write"
  /\ fd' = [fd EXCEPT ![p] = -1]
  /\ IF env.tmp = "writefail"
       THEN /\ pc' = [pc EXCEPT ![p] = OnOSError("system")]
            /\ exit' = [exit EXCEPT ![p] = ExitAt(OnOSError("system"), @)]
            /\ tmpFailed' = [tmpFailed EXCEPT ![p] = TRUE]
            /\ UNCHANGED tmpFile
       ELSE /\ tmpFile' = WriteAt(tmpFile, fd[p], swift_script)
            /\ pc' = [pc EXCEPT ![p] = "system"]
            /\ UNCHANGED <<exit, tmpFailed>>
  /\ UNCHANGED <<env, files, swift, program, idx, status, stdout, written,
                 invoked, snap>>

\* How `swift <file>` goes on once it has read the file: the generator's
\* program runs; an empty file is an empty program, which ends at once with
\* success; any other text does not compile.
SwiftLoad(text) ==
  IF text = <<swift_script>> THEN [swift |-> "running", status |-> "none"]
  ELSE IF text = <<>> THEN [swift |-> "exited", status |-> "ok"]
  ELSE [swift |-> "exited", status |-> "error"]

\* `os.system(f"swift {script_path}")`, the start of the command: the shell
\* looks for swift; swift reads the temporary file as it is at that moment.
\* The Python process stays in os.system until the command has ended.
System(p) ==
  /\ pc[p] = "system"
  /\ swift[p] = "notstarted"
  /\ invoked' = [invoked EXCEPT ![p] = @ + 1]
  /\ IF ~env.swift
       THEN /\ swift' = [swift EXCEPT ![p] = "exited"]
            /\ status' = [status EXCEPT ![p] = "notfound"]
            /\ UNCHANGED <<program, idx>>
       ELSE /\ program' = [program EXCEPT ![p] = tmpFile.text]
            /\ swift' = [swift EXCEPT ![p] = SwiftLoad(tmpFile.text).swift]
            /\ status' = [status EXCEPT ![p] = SwiftLoad(tmpFile.text).status]
            /\ idx' = [idx EXCEPT ![p] = 1]
  /\ UNCHANGED <<env, tmpFile, files, pc, fd, stdout, written, tmpFailed,
                 exit, snap>>

\* A Python process that goes on as soon as the command has been started.
NoWait(p) == swift[p] # "notstarted"

\* os.system returns when the command has ended.
Waited(p) == swift[p] = "exited"

\* What follows os.system if its result were checked the way
\* subprocess.run(check=True) checks it.
AfterSystemChecked(st) == IF st = "ok" THEN "done" ELSE "raised"

\* What follows os.system: its result is dropped, generate_icons returns.
AfterSystem(st) == "done"

\* The exit status if the script passed the command's status on.
ExitCodeOfStatus(st) == IF st = "ok" THEN "success" ELSE "failure"

\* The exit status of a script whose last statement has been executed.
ExitCode(st) == "success"

\* os.system returns, generate_icons returns, the script ends.
Return(p) ==
  /\ pc[p] = "system"
  /\ Waited(p)
  /\ pc' = [pc EXCEPT ![p] = AfterSystem(status[p])]
  /\ exit' = [exit EXCEPT ![p] =
                ExitAt(AfterSystem(status[p]), ExitCode(status[p]))]
  /\ snap' = [snap EXCEPT ![p] = [tmp |-> tmpFile, files |-> files]]
  /\ UNCHANGED <<env, tmpFile, files, fd, swift, program, idx, status,
                 stdout, written, invoked, tmpFailed>>

(***************************************************************************)
(* The Swift program                                                       *)
(***************************************************************************)

\* How one call of createIcon for entry i ends, in the order of its
\* statements: "return" at a guard (no file, no line), "trap" at the forced
\* unwrap of the gradient (the program dies), "printed" when
\* CGImageDestinationFinalize returns false (its result is dropped and the
\* line is printed all the same), "written" when the file is written and the
\* line printed.
Outcome(e, i) ==
  IF e.cg.at = i /\ e.cg.kind = "context" THEN "return"
  ELSE IF e.cg.at = i /\ e.cg.kind = "gradient" THEN "trap"
  ELSE IF e.cg.at = i /\ e.cg.kind = "image" THEN "return"
  ELSE IF e.dest = "nocreate" THEN "return"
  ELSE IF e.dest = "nofinalize" THEN "printed"
  ELSE "written"

\* One iteration of `for (size, filename) in sizes`: createIcon(size, path).
createIcon(p) ==
  /\ swift[p] = "running"
  /\ idx[p] <= Len(program[p][1].sizes)
  /\ LET prog == program[p][1]
         size == prog.sizes[idx[p]][1]
         path == PathOf(prog.basePath, prog.sizes[idx[p]][2])
         out == Outcome(env, idx[p])
     IN  /\ files' = IF out = "written"
                       THEN (path :> Image(size)) @@ files
                       ELSE files
         /\ written' = IF out = "written"
                         THEN [written EXCEPT ![p] =
                                 @ \cup {[path |-> path, canvas |-> Canvas(size)]}]
                         ELSE written
         /\ stdout' = IF out \in {"written", "printed"}
                        THEN [stdout EXCEPT ![p] = Append(@, CreatedLine(path))]
                        ELSE stdout
         /\ IF out = "trap"
              THEN /\ swift' = [swift EXCEPT ![p] = "exited"]
                   /\ status' = [status EXCEPT ![p] = "trap"]
                   /\ UNCHANGED idx
              ELSE /\ idx' = [idx EXCEPT ![p] = @ + 1]
                   /\ UNCHANGED <<swift, status>>
  /\ UNCHANGED <<env, tmpFile, pc, fd, program, invoked, tmpFailed, exit,
                 snap>>

\* After the loop: print("All icons generated successfully!"), and the
\* program ends with success.
Finish(p) ==
  /\ swift[p] = "running"
  /\ idx[p] > Len(program[p][1].sizes)
  /\ stdout' = [stdout EXCEPT ![p] = Append(@, program[p][1].last)]
  /\ swift' = [swift EXCEPT ![p] = "exited"]
  /\ status' = [status EXCEPT ![p] = "ok"]
  /\ UNCHANGED <<env, tmpFile, files, pc, fd, program, idx, written, invoked,
                 tmpFailed, exit, snap>>

(***************************************************************************)
(* Specifications                                                          *)
(***************************************************************************)

\* Executions of the script one after another.
Next ==
  \E p \in Procs :
    \/ StartSeq(p)
    \/ Open(p)
    \/ WriteClose(p)
    \/ System(p)
    \/ createIcon(p)
    \/ Finish(p)
    \/ Return(p)

Spec == Init /\ [][Next]_vars

\* Executions of the script that may overlap.
NextConc ==
  \E p \in Procs :
    \/ Start(p)
    \/ Open(p)
    \/ WriteClose(p)
    \/ System(p)
    \/ createIcon(p)
    \/ Finish(p)
    \/ Return(p)

SpecConc == InitConc /\ [][NextConc]_vars

TypeOK ==
  /\ env \in Envs
  /\ tmpFile.exists \in BOOLEAN
  /\ \A p \in Procs :
       /\ pc[p] \in {"idle", "open", "write", "system", "done", "raised"}
       /\ swift[p] \in {"notstarted", "running", "exited"}
       /\ status[p] \in {"none", "ok", "error", "notfound", "trap"}
       /\ exit[p] \in {"running", "success", "failure"}
       /\ fd[p] \in {-1, 0}
       /\ idx[p] \in 0..(Len(swiftSizes) + 1)

(***************************************************************************)
(* Properties                                                              *)
(***************************************************************************)

\* The table of output files of the specification's section 6.
IconTable ==
  << <<16, "icon_16x16.png">>,
     <<32, "icon_16x16@2x.png">>,
     <<32, "icon_32x32.png">>,
     <<64, "icon_32x32@2x.png">>,
     <<128, "icon_128x128.png">>,
     <<256, "icon_128x128@2x.png">>,
     <<256, "icon_256x256.png">>,
     <<512, "icon_256x256@2x.png">>,
     <<512, "icon_512x512.png">>,
     <<1024, "icon_512x512@2x.png">> >>

\* The path of entry i of the table in the destination directory.
TablePath(i) == PathOf(base_path, IconTable[i][2])

TablePaths == {TablePath(i) : i \in 1..Len(IconTable)}

\* The image the table asks for at entry i.
TableImage(i) ==
  [canvas |-> [width |-> IconTable[i][1], height |-> IconTable[i][1]],
   format |-> "png"]

\* No execution is under way.
Quiet == \A q \in Procs : pc[q] = "idle" \/ Finished(q)

Range(seq) == {seq[k] : k \in 1..Len(seq)}

\* C1: after a run in the environment the program assumes (swift available,
\* destination directory present and writable, no allocation failure), the
\* destination directory holds exactly the ten files of the table, each under
\* its own name with the image of its own size, and the run wrote ten
\* distinct files: no entry was skipped, none overwrote another's file.
C1_TenFilesOfTheTable ==
  \A p \in Procs :
    (pc[p] = "done" /\ Nominal(env)) =>
      /\ DOMAIN files = TablePaths
      /\ Cardinality(DOMAIN files) = Len(IconTable)
      /\ \A i \in 1..Len(IconTable) : files[TablePath(i)] = TableImage(i)
      /\ {w.path : w \in written[p]} = TablePaths

C1_Witness ==
  \E p \in Procs :
    /\ pc[p] = "done"
    /\ Nominal(env)
    /\ Cardinality(written[p]) = Len(IconTable)
    /\ TablePath(Len(IconTable)) \in DOMAIN files

\* C2: after a run (the script has returned and no other execution is under
\* way), the temporary file exists, is not empty, and the list of (size,
\* filename) pairs in it is the Python list, entry by entry.
C2_TmpHoldsThePythonList ==
  (Quiet /\ \E p \in Procs : pc[p] = "done") =>
    /\ tmpFile.exists
    /\ tmpFile.text # <<>>
    /\ \A k \in 1..Len(tmpFile.text) : tmpFile.text[k].sizes = sizes

C2_Witness ==
  /\ Quiet
  /\ \E p \in Procs : pc[p] = "done"
  /\ tmpFile.exists
  /\ Len(tmpFile.text) = 1
  /\ Len(tmpFile.text[1].sizes) = Len(sizes)

\* C3: when the command given to os.system fails (swift not found, a
\* non-zero status, a missing destination directory, no image produced),
\* generate_icons does not raise: the process is still in os.system or has
\* returned, and it can return.
C3_FailedCommandNeverRaises ==
  \A p \in Procs :
    (swift[p] = "exited" /\ (status[p] # "ok" \/ written[p] = {})) =>
      /\ pc[p] \in {"system", "done"}
      /\ exit[p] # "failure"
      /\ (pc[p] = "system" => ENABLED Return(p))

C3_Witness ==
  \E p \in Procs :
    /\ pc[p] = "done"
    /\ status[p] = "notfound"
    /\ ~env.swift
    /\ written[p] = {}

\* C4: a run whose write of the temporary file failed (open or write) has
\* raised, and has neither called os.system nor written an image nor printed
\* a line.
C4_TmpFailureIsFatal ==
  \A p \in Procs :
    tmpFailed[p] =>
      /\ pc[p] = "raised"
      /\ invoked[p] = 0
      /\ swift[p] = "notstarted"
      /\ written[p] = {}
      /\ stdout[p] = <<>>

C4_Witness ==
  \E p \in Procs :
    /\ tmpFailed[p]
    /\ env.tmp = "writefail"
    /\ pc[p] = "raised"
    /\ tmpFile.exists

\* C5, as claimed: every execution that has ended, whichever step failed,
\* exited with success.
C5_AlwaysExitsSuccess ==
  \A p \in Procs : Finished(p) => exit[p] = "success"

\* C5, amended: an execution whose temporary file was written exits with
\* success whatever the command did and whether or not an image was
\* produced; an execution whose temporary file could not be written raises
\* and exits with failure.
C5_SuccessIffTmpWritten ==
  \A p \in Procs :
    /\ (Finished(p) /\ ~tmpFailed[p]) => (pc[p] = "done" /\ exit[p] = "success")
    /\ (Finished(p) /\ tmpFailed[p]) => (pc[p] = "raised" /\ exit[p] = "failure")
    /\ ~Finished(p) => exit[p] = "running"

C5_Witness ==
  \E p \in Procs :
    /\ pc[p] = "done"
    /\ exit[p] = "success"
    /\ status[p] = "trap"
    /\ Cardinality(written[p]) < Len(IconTable)

\* The Created lines of a standard output, in order.
CreatedLines(out) == SelectSeq(out, LAMBDA l : l.text = "Created: ")

\* C6, as claimed: a Created line for a path is on standard output exactly
\* when the run wrote the image at that path; the Created lines are in table
\* order; and when the program has ended the completion line is there once,
\* as the last line.
C6_CreatedIffWritten ==
  \A p \in Procs :
    /\ \A i \in 1..Len(IconTable) :
         (CreatedLine(TablePath(i)) \in Range(stdout[p]))
           <=> (\E w \in written[p] : w.path = TablePath(i))
    /\ \A j, k \in 1..Len(CreatedLines(stdout[p])) :
         j < k =>
           \E a, b \in 1..Len(IconTable) :
             /\ a < b
             /\ CreatedLines(stdout[p])[j].path = TablePath(a)
             /\ CreatedLines(stdout[p])[k].path = TablePath(b)
    /\ (swift[p] = "exited" /\ status[p] = "ok" /\ program[p] # <<>>) =>
         /\ stdout[p][Len(stdout[p])] = doneLine
         /\ Len(stdout[p]) = Len(CreatedLines(stdout[p])) + 1

\* C7: of two executions one after the other, the second returns as the
\* first did, and the files it leaves (the temporary file's text, the set of
\* image files and each one's content) are those the first left.
C7_SecondRunLeavesTheSameFiles ==
  \A p, q \in Procs :
    (p # q /\ pc[p] = "done" /\ Finished(q)) =>
      /\ pc[q] = "done"
      /\ snap[p] = snap[q]

C7_Witness ==
  \E p, q \in Procs :
    /\ p # q
    /\ pc[p] = "done"
    /\ pc[q] = "done"
    /\ Nominal(env)
    /\ snap[q].files # NoFiles
    /\ snap[q].tmp.text = <<swift_script>>

\* C8: every image a run wrote is at the path of a table entry, on a canvas
\* whose width and height are both that entry's size, and the file at that
\* path holds it.
C8_CanvasIsTheEntrysSize ==
  \A p \in Procs :
    \A w \in written[p] :
      /\ w.path \in TablePaths
      /\ \A i \in 1..Len(IconTable) :
           w.path = TablePath(i) =>
             /\ w.canvas.width = IconTable[i][1]
             /\ w.canvas.height = IconTable[i][1]
             /\ files[w.path].canvas = w.canvas

C8_Witness ==
  \E p \in Procs :
    \E w \in written[p] :
      /\ w.path = PathOf(base_path, "icon_512x512@2x.png")
      /\ w.canvas = [width |-> 1024, height |-> 1024]

\* C9: a run has called os.system at most once, and only with its descriptor
\* closed and the whole text in the temporary file; it has returned only
\* with the command ended; and when it returned the temporary file was there
\* with the text.
C9_StepsInOrder ==
  \A p \in Procs :
    /\ invoked[p] <= 1
    /\ invoked[p] = 1 =>
         /\ fd[p] = -1
         /\ env.swift => program[p] = <<swift_script>>
    /\ pc[p] \in {"idle", "open", "write"} =>
         (invoked[p] = 0 /\ swift[p] = "notstarted")
    /\ pc[p] = "done" =>
         /\ swift[p] = "exited"
         /\ snap[p].tmp = [exists |-> TRUE, text |-> <<swift_script>>]

C9_Witness ==
  \E p \in Procs :
    /\ pc[p] = "done"
    /\ invoked[p] = 1
    /\ status[p] = "ok"
    /\ Len(stdout[p]) = Len(IconTable) + 1

AllFinished == \A p \in Procs : Finished(p)

\* Some run wrote the file at path, and the file holds what one such write
\* put there.
WrittenByARun(path) ==
  \E p \in Procs :
    \E w \in written[p] :
      /\ w.path = path
      /\ path \in DOMAIN files
      /\ files[path] = [canvas |-> w.canvas, format |-> "png"]

\* C10, as claimed: every swift started by overlapping executions read the
\* complete text, and once all have ended the temporary file and the output
\* files hold what one of the runs wrote.
C10_EveryRunReadsTheWholeText ==
  /\ \A p \in Procs :
       (invoked[p] = 1 /\ env.swift) => program[p] = <<swift_script>>
  /\ (AllFinished /\ Nominal(env)) =>
       /\ tmpFile = [exists |-> TRUE, text |-> <<swift_script>>]
       /\ \A i \in 1..Len(IconTable) : WrittenByARun(TablePath(i))

\* C10, amended: a swift started by overlapping executions may read an
\* incomplete file (here: the empty file another run's open left), and then
\* writes and prints nothing; once all have ended the temporary file holds
\* the complete text, at least one run read the complete text, and each of
\* the ten output files holds the complete image one of the runs wrote.
C10_LastWriteWins ==
  /\ \A p \in Procs :
       (invoked[p] = 1 /\ env.swift /\ program[p] # <<swift_script>>) =>
         (written[p] = {} /\ stdout[p] = <<>>)
  /\ (AllFinished /\ \E p \in Procs : pc[p] = "done") =>
       tmpFile = [exists |-> TRUE, text |-> <<swift_script>>]
  /\ (AllFinished /\ Nominal(env)) =>
       /\ \E p \in Procs : program[p] = <<swift_script>>
       /\ \A i \in 1..Len(IconTable) : WrittenByARun(TablePath(i))

C10_Witness ==
  /\ AllFinished
  /\ Nominal(env)
  /\ \E p \in Procs : pc[p] = "done" /\ invoked[p] = 1 /\ program[p] = <<>>
  /\ \A i \in 1..Len(IconTable) : WrittenByARun(TablePath(i))

====
